---- MODULE Spec2Model ----
(***************************************************************************)
(* A model of the drand client of src/src/lib.rs: client construction,     *)
(* the round clock, beacon verification and the two fetch operations.      *)
(*                                                                         *)
(* Text is a sequence of one-character strings, a byte is its value        *)
(* 0..255.  Machine words are u64 in the source; the model keeps the       *)
(* modular arithmetic and scales the width to WordBits.  The BLS12-381     *)
(* groups are library code: they are modelled by the additive group of     *)
(* integers modulo GroupOrder, with the pairing e(a, b) = a * b, which is   *)
(* bilinear and non-degenerate, and compressed points are big-endian byte  *)
(* strings of the group's size.  SHA-256 is modelled by a short digest.    *)
(***************************************************************************)
EXTENDS Integers, Sequences, FiniteSets, TLC

\* ------------------------------------------------------------------ bounds
\* Width of the machine word standing for u64.
WordBits == 3
\* Order of the groups standing for G1, G2 and GT.
GroupOrder == 13
\* Bytes of a compressed G1 point; a compressed G2 point is twice as long.
PointBytes == 1
\* The rounds that beacons and get_round requests are drawn from are 1..MaxRound.
MaxRound == 2
\* The runs of verify_beacon followed on one client.
MaxCalls == 2

RECURSIVE Pow2(_)
Pow2(n) == IF n = 0 THEN 1 ELSE 2 * Pow2(n - 1)

U64Modulus == Pow2(WordBits)
U64 == 0 .. (U64Modulus - 1)

\* ------------------------------------------------------------------ text
None == [some |-> FALSE]
Some(x) == [some |-> TRUE, v |-> x]

Ok(x) == [ok |-> TRUE, v |-> x]
Err(e) == [ok |-> FALSE, err |-> e]

LowerHex == << "0", "1", "2", "3", "4", "5", "6", "7",
               "8", "9", "a", "b", "c", "d", "e", "f" >>
UpperHex == << "0", "1", "2", "3", "4", "5", "6", "7",
               "8", "9", "A", "B", "C", "D", "E", "F" >>

IsHexChar(c) == \E i \in 1..16 : LowerHex[i] = c \/ UpperHex[i] = c
HexVal(c) == (CHOOSE i \in 1..16 : LowerHex[i] = c \/ UpperHex[i] = c) - 1

\* hex::decode: odd length is refused first, then any character that is no
\* hexadecimal digit; digits of either case are accepted.
RECURSIVE HexBytes(_)
HexBytes(s) ==
    IF s = << >> THEN << >>
    ELSE << 16 * HexVal(s[1]) + HexVal(s[2]) >> \o HexBytes(SubSeq(s, 3, Len(s)))
hex_decode(s) ==
    IF Len(s) % 2 = 1 THEN Err("hex: odd number of digits")
    ELSE IF \E i \in 1..Len(s) : ~IsHexChar(s[i]) THEN Err("hex: invalid character")
    ELSE Ok(HexBytes(s))

\* hex::encode: two lowercase digits per byte.
RECURSIVE hex_encode(_)
hex_encode(bytes) ==
    IF bytes = << >> THEN << >>
    ELSE << LowerHex[(Head(bytes) \div 16) + 1], LowerHex[(Head(bytes) % 16) + 1] >>
            \o hex_encode(Tail(bytes))

\* The other case of a letter, and the text in upper case.
FlipCase(c) ==
    IF \E i \in 11..16 : LowerHex[i] = c
    THEN UpperHex[CHOOSE i \in 11..16 : LowerHex[i] = c]
    ELSE IF \E i \in 11..16 : UpperHex[i] = c
    THEN LowerHex[CHOOSE i \in 11..16 : UpperHex[i] = c]
    ELSE c
RECURSIVE ToUpper(_)
ToUpper(s) ==
    IF s = << >> THEN << >>
    ELSE << (IF \E k \in 11..16 : LowerHex[k] = Head(s) THEN FlipCase(Head(s)) ELSE Head(s)) >>
            \o ToUpper(Tail(s))

\* u64::to_be_bytes: eight bytes, most significant first.
RECURSIVE ShiftRightBytes(_, _)
ShiftRightBytes(x, k) == IF k = 0 THEN x ELSE ShiftRightBytes(x \div 256, k - 1)
to_be_bytes(x) ==
    << ShiftRightBytes(x, 7) % 256, ShiftRightBytes(x, 6) % 256,
       ShiftRightBytes(x, 5) % 256, ShiftRightBytes(x, 4) % 256,
       ShiftRightBytes(x, 3) % 256, ShiftRightBytes(x, 2) % 256,
       ShiftRightBytes(x, 1) % 256, x % 256 >>

\* Sha256: a one-byte digest of the whole input, length included.
RECURSIVE Absorb(_, _)
Absorb(h, bytes) ==
    IF bytes = << >> THEN h
    ELSE Absorb((h * 31 + Head(bytes) + 1) % 251, Tail(bytes))
Sha256(bytes) == << Absorb(7 + Len(bytes), bytes) >>

\* ------------------------------------------------------------------ curve
G1_SIZE == PointBytes
G2_SIZE == 2 * PointBytes

Point(grp, v) == [grp |-> grp, v |-> v]
generator(grp) == Point(grp, 1)

\* G1Affine::from_compressed / G2Affine::from_compressed on an array of the
\* group's size: the big-endian number must be below the group order.
from_compressed(grp, bytes) ==
    IF /\ \A i \in 1..(Len(bytes) - 1) : bytes[i] = 0
       /\ bytes[Len(bytes)] < GroupOrder
    THEN Some(Point(grp, bytes[Len(bytes)]))
    ELSE None

\* hash_to_curve with expand-message-XMD: a point fixed by (message, dst),
\* and never the identity.
hash_to_curve(grp, message, dst) ==
    Point(grp, 1 + (Absorb(Absorb(3, dst), message) % (GroupOrder - 1)))
hash_to_g1(message, dst) == hash_to_curve("G1", message, dst)
hash_to_g2(message, dst) == hash_to_curve("G2", message, dst)

\* bls12_381::pairing: an element of GT, written additively.
pairing(p, q) == (p.v * q.v) % GroupOrder

\* e(p, q) == e(r, s), as the product e(-p, q) * e(r, s) being the identity.
fast_pairing_equality(p, q, r, s) ==
    LET minus_p == Point(p.grp, (GroupOrder - p.v) % GroupOrder)
        looped  == (pairing(minus_p, q) + pairing(r, s)) % GroupOrder
    IN  looped = 0

\* ------------------------------------------------------------------ client
ChainConfig(chain_hash, public_key, genesis_time, period, scheme_id) ==
    [chain_hash |-> chain_hash, public_key |-> public_key,
     genesis_time |-> genesis_time, period |-> period, scheme_id |-> scheme_id]

DrandBeacon(round, randomness, signature, previous_signature) ==
    [round |-> round, randomness |-> randomness, signature |-> signature,
     previous_signature |-> previous_signature]

\* decode_public_key with the two branches exchanged: the quicknet flag
\* parses a G1 key and the mainnet flag a G2 key.
decode_public_key_swapped(pk_bytes, use_quicknet) ==
    IF ~use_quicknet
    THEN IF Len(pk_bytes) # G2_SIZE THEN Err("Invalid G2 public key length")
         ELSE LET pk == from_compressed("G2", pk_bytes)
              IN  IF ~pk.some THEN Err("Invalid G2 public key for quicknet")
                  ELSE Ok(<< None, pk >>)
    ELSE IF Len(pk_bytes) # G1_SIZE THEN Err("Invalid G1 public key length")
         ELSE LET pk == from_compressed("G1", pk_bytes)
              IN  IF ~pk.some THEN Err("Invalid G1 public key for mainnet")
                  ELSE Ok(<< pk, None >>)

\* The public key of DrandClient::new, parsed into the group the flag names:
\* the pair (g1_public_key, g2_public_key), or the error.
decode_public_key(pk_bytes, use_quicknet) ==
    IF use_quicknet
    THEN IF Len(pk_bytes) # G2_SIZE THEN Err("Invalid G2 public key length")
         ELSE LET pk == from_compressed("G2", pk_bytes)
              IN  IF ~pk.some THEN Err("Invalid G2 public key for quicknet")
                  ELSE Ok(<< None, pk >>)
    ELSE IF Len(pk_bytes) # G1_SIZE THEN Err("Invalid G1 public key length")
         ELSE LET pk == from_compressed("G1", pk_bytes)
              IN  IF ~pk.some THEN Err("Invalid G1 public key for mainnet")
                  ELSE Ok(<< pk, None >>)

\* DrandClient::new.  base_url and timeout_seconds only shape the HTTP
\* request, which the fetch operations abstract, and are left out.
DrandClient_new(chain_config, use_quicknet, quicknet_dst, mainnet_dst) ==
    LET pk_bytes == hex_decode(chain_config.public_key)
        keys     == decode_public_key(pk_bytes.v, use_quicknet)
    IN  IF ~pk_bytes.ok THEN pk_bytes
        ELSE IF ~keys.ok THEN keys
        ELSE Ok([chain_config |-> chain_config, g1_public_key |-> keys.v[1],
                 g2_public_key |-> keys.v[2], use_quicknet |-> use_quicknet,
                 quicknet_dst |-> quicknet_dst, mainnet_dst |-> mainnet_dst])

\* ------------------------------------------------------------------ clock
\* What a call does: it returns a value or it panics.
Returned(v) == [kind |-> "return", v |-> v]
Panicked(msg) == [kind |-> "panic", msg |-> msg]

\* a + b on u64: with overflow checks (debug profile) an overflow panics,
\* without them (release profile) the sum wraps.
add_u64(a, b, overflow_checks) ==
    IF a + b < U64Modulus THEN Returned(a + b)
    ELSE IF overflow_checks THEN Panicked("attempt to add with overflow")
    ELSE Returned((a + b) % U64Modulus)

round_at_timestamp(self, timestamp, overflow_checks) ==
    IF timestamp <= self.chain_config.genesis_time THEN Returned(1)
    ELSE IF self.chain_config.period = 0
    THEN Panicked("attempt to divide by zero")
    ELSE add_u64((timestamp - self.chain_config.genesis_time)
                    \div self.chain_config.period, 1, overflow_checks)

next_round_after(self, timestamp, overflow_checks) ==
    LET r == round_at_timestamp(self, timestamp, overflow_checks)
    IN  IF r.kind = "panic" THEN r ELSE add_u64(r.v, 1, overflow_checks)

\* ------------------------------------------------------------------ verify
\* include_prev_sig without the arm of "bls-unchained-on-g1", which then
\* falls to the probe of the beacon.
include_prev_sig_missing_arm(scheme_id, beacon) ==
    CASE scheme_id = "pedersen-bls-chained"     -> TRUE
      [] scheme_id = "bls-unchained-g1-rfc9380" -> FALSE
      [] scheme_id = "pedersen-bls-unchained"   -> FALSE
      [] OTHER -> IF beacon.previous_signature.some
                  THEN beacon.previous_signature.v # << >>
                  ELSE FALSE

\* The match on chain_config.scheme_id that decides include_prev_sig.
include_prev_sig(scheme_id, beacon) ==
    CASE scheme_id = "pedersen-bls-chained"     -> TRUE
      [] scheme_id = "bls-unchained-g1-rfc9380" -> FALSE
      [] scheme_id = "pedersen-bls-unchained"   -> FALSE
      [] scheme_id = "bls-unchained-on-g1"      -> FALSE
      [] OTHER -> IF beacon.previous_signature.some
                  THEN beacon.previous_signature.v # << >>
                  ELSE FALSE

\* The bytes fed to the hasher ahead of the round: Ok(<< >>) when nothing is
\* fed, the hex error when the previous signature does not decode.
prev_sig_bytes(scheme_id, beacon) ==
    IF /\ include_prev_sig(scheme_id, beacon)
       /\ beacon.previous_signature.some
       /\ beacon.previous_signature.v # << >>
    THEN hex_decode(beacon.previous_signature.v)
    ELSE Ok(<< >>)

\* The lines verify_beacon writes with println!, in order, up to the place
\* the call leaves at.  A line is its text, followed by the value it formats.
QuicknetLines(n) ==
    SubSeq(<< << "DEBUG: Quicknet verification" >>,
              << "  Quicknet pairing verification" >>,
              << "  Quicknet pairing verification PASSED" >> >>, 1, n)
MainnetHead(sig_bytes, message, dst) ==
    << << "DEBUG: Mainnet verification" >>,
       << "  Signature bytes len: ", Len(sig_bytes) >>,
       << "  Message: ", hex_encode(message) >>,
       << "  DST: ", dst >> >>
MainnetParsed ==
    << << "  Parsed signature and public key successfully" >>,
       << "  Hashed message to G2 successfully" >> >>
MainnetComputed == << << "  LHS pairing: computed" >>, << "  RHS pairing: computed" >> >>

\* quicknet_pairing_equal with the left pairing computed for both sides.
quicknet_pairing_equal_copied(signature, hashed_message, public_key) ==
    LET lhs == pairing(signature, generator("G2"))
        rhs == pairing(signature, generator("G2"))
    IN  lhs = rhs

\* The quicknet check: e(signature, g2) == e(hashed_message, public_key).
quicknet_pairing_equal(signature, hashed_message, public_key) ==
    LET lhs == pairing(signature, generator("G2"))
        rhs == pairing(hashed_message, public_key)
    IN  lhs = rhs

\* The mainnet check: e(g1, signature) == e(public_key, hashed_message).
mainnet_pairing_equal(signature, hashed_message, public_key) ==
    fast_pairing_equality(generator("G1"), signature, public_key, hashed_message)

\* randomness_matches comparing without regard to letter case.
randomness_matches_any_case(sig_bytes, beacon) ==
    ToUpper(hex_encode(Sha256(sig_bytes))) = ToUpper(beacon.randomness)

\* randomness = H(signature), compared as strings.
randomness_matches(sig_bytes, beacon) ==
    hex_encode(Sha256(sig_bytes)) = beacon.randomness

Verdict(result, out, message) == [result |-> result, out |-> out, message |-> message]

\* DrandClient::verify_beacon: the Result it returns, the lines it prints and
\* the message it hashed to the curve (None when it left before).
verify_beacon(self, beacon) ==
    LET sig   == hex_decode(beacon.signature)
        prev  == prev_sig_bytes(self.chain_config.scheme_id, beacon)
    IN
    IF ~sig.ok THEN Verdict(sig, << >>, None)
    ELSE IF ~prev.ok THEN Verdict(prev, << >>, None)
    ELSE
    LET sig_bytes == sig.v
        message   == Sha256(prev.v \o to_be_bytes(beacon.round))
        dst       == IF self.use_quicknet THEN self.quicknet_dst ELSE self.mainnet_dst
        checked(out) ==
            IF randomness_matches(sig_bytes, beacon)
            THEN Verdict(Ok("unit"), out, Some(message))
            ELSE Verdict(Err("Randomness doesn't match signature hash"), out, Some(message))
    IN
    IF self.use_quicknet
    THEN IF Len(sig_bytes) # G1_SIZE
         THEN Verdict(Err("Invalid G1 signature length"), QuicknetLines(1), Some(message))
         ELSE
         LET signature == from_compressed("G1", sig_bytes) IN
         IF ~signature.some
         THEN Verdict(Err("Invalid G1 signature for quicknet"), QuicknetLines(1), Some(message))
         ELSE IF ~self.g2_public_key.some
         THEN Verdict(Err("Missing G2 public key for quicknet"), QuicknetLines(1), Some(message))
         ELSE
         LET hashed_message == hash_to_g1(message, dst)
         IN  IF ~quicknet_pairing_equal(signature.v, hashed_message, self.g2_public_key.v)
             THEN Verdict(Err("Quicknet signature verification failed"),
                          QuicknetLines(2) \o << << "  Quicknet pairing verification FAILED" >> >>,
                          Some(message))
             ELSE checked(QuicknetLines(3))
    ELSE LET head == MainnetHead(sig_bytes, message, dst) IN
         IF Len(sig_bytes) # G2_SIZE
         THEN Verdict(Err("Invalid G2 signature length"), head, Some(message))
         ELSE
         LET signature == from_compressed("G2", sig_bytes) IN
         IF ~signature.some
         THEN Verdict(Err("Invalid G2 signature for mainnet"), head, Some(message))
         ELSE IF ~self.g1_public_key.some
         THEN Verdict(Err("Missing G1 public key for mainnet"), head, Some(message))
         ELSE
         LET hashed_message == hash_to_g2(message, dst)
             verified == mainnet_pairing_equal(signature.v, hashed_message,
                                               self.g1_public_key.v)
             out == head \o MainnetParsed \o MainnetComputed
         IN  IF ~verified
             THEN Verdict(Err("Mainnet signature verification failed"),
                          out \o << << "  Fast pairing verification FAILED" >> >>,
                          Some(message))
             ELSE checked(out \o << << "  Fast pairing verification PASSED" >> >>)

\* ------------------------------------------------------------------ inputs
\* The two networks that sign beacons: their secret keys, their domain
\* separation tags (as bytes) and their scheme identifiers.
Quicknet == [sk |-> 10, dst |-> << 81 >>, scheme_id |-> "bls-unchained-g1-rfc9380"]
Mainnet  == [sk |-> 11, dst |-> << 77 >>, scheme_id |-> "pedersen-bls-chained"]

RECURSIVE Zeros(_)
Zeros(n) == IF n = 0 THEN << >> ELSE << 0 >> \o Zeros(n - 1)
\* The compressed encoding of the point v of a group whose points take n bytes.
Compressed(n, v) == Zeros(n - 1) \o << v % GroupOrder >>

QuicknetPublicKey == hex_encode(Compressed(G2_SIZE, Quicknet.sk))
MainnetPublicKey  == hex_encode(Compressed(G1_SIZE, Mainnet.sk))

\* The signature each network gives for a round: sk * H(message).
QuicknetSignature(round) ==
    Compressed(G1_SIZE,
        Quicknet.sk * hash_to_g1(Sha256(to_be_bytes(round)), Quicknet.dst).v)
RECURSIVE MainnetSignature(_)
MainnetSignature(round) ==
    IF round = 0 THEN Compressed(G2_SIZE, 1)
    ELSE Compressed(G2_SIZE,
            Mainnet.sk * hash_to_g2(Sha256(MainnetSignature(round - 1)
                                           \o to_be_bytes(round)), Mainnet.dst).v)

\* The beacons the two networks publish.
QuicknetBeacon(round) ==
    DrandBeacon(round, hex_encode(Sha256(QuicknetSignature(round))),
                hex_encode(QuicknetSignature(round)), None)
MainnetBeacon(round) ==
    DrandBeacon(round, hex_encode(Sha256(MainnetSignature(round))),
                hex_encode(MainnetSignature(round)),
                Some(hex_encode(MainnetSignature(round - 1))))

Rounds == 1 .. MaxRound
Published == {QuicknetBeacon(r) : r \in Rounds} \cup {MainnetBeacon(r) : r \in Rounds}

\* A text with one character replaced: a letter by its other case, the last
\* digit by another digit or by a character that is no hexadecimal digit, the
\* first digit by another digit.
OneCharEdits(s) ==
    {[s EXCEPT ![i] = FlipCase(s[i])] : i \in 1..Len(s)}
      \cup {[s EXCEPT ![Len(s)] = c] : c \in {"1", "f", "g"}}
      \cup {[s EXCEPT ![1] = "1"]}
\* A text cut short or grown.
LengthEdits(s) ==
    {SubSeq(s, 1, Len(s) - 1), SubSeq(s, 1, Len(s) - 2), s \o << "0", "0" >>}

SignatureEdits(s) == (OneCharEdits(s) \cup LengthEdits(s)) \ {s}
RandomnessEdits(s) == {ToUpper(s), hex_encode(<< 0 >>)} \ {s}
PreviousSignatureEdits(p) ==
    {None, Some(<< >>), Some(<< "g", "0" >>),
     Some(hex_encode(Compressed(G2_SIZE, 2)))} \ {p}

\* A beacon with a single field changed.
FieldEdits(b) ==
    {[b EXCEPT !.signature = s] : s \in SignatureEdits(b.signature)}
      \cup {[b EXCEPT !.randomness = s] : s \in RandomnessEdits(b.randomness)}
      \cup {[b EXCEPT !.previous_signature = p] :
                p \in PreviousSignatureEdits(b.previous_signature)}
      \cup {[b EXCEPT !.round = r] : r \in Rounds \ {b.round}}

\* The records a fetch may decode: the published beacons, and the first
\* beacon of each network with a single field changed.
Beacons == Published \cup FieldEdits(QuicknetBeacon(1)) \cup FieldEdits(MainnetBeacon(1))

SchemeIds ==
    {"pedersen-bls-chained", "bls-unchained-g1-rfc9380", "pedersen-bls-unchained",
     "bls-unchained-on-g1", "bls-bn254-unchained-on-g1"}

\* Public keys a configuration may carry: the networks' keys, and keys that
\* do not decode.
PublicKeys ==
    {QuicknetPublicKey, MainnetPublicKey}
      \cup {[QuicknetPublicKey EXCEPT ![1] = "g"], [MainnetPublicKey EXCEPT ![1] = "f"],
            SubSeq(MainnetPublicKey, 1, Len(MainnetPublicKey) - 1)}

\* Configurations for verification: every key under every scheme identifier.
ChainConfigs ==
    {ChainConfig("chain", pk, 2, 3, id) : pk \in PublicKeys, id \in SchemeIds}

\* Configurations for the clock: every genesis time and period of the word.
ClockConfigs ==
    {ChainConfig("chain", QuicknetPublicKey, g, p, Quicknet.scheme_id) : g \in U64, p \in U64}

\* ------------------------------------------------------------------ state
VARIABLES
    client,           \* the DrandClient in use: None, or Some(client)
    last,             \* the latest call: what was asked and what came back
    console,          \* the lines the latest call wrote to standard output
    history           \* the runs of verify_beacon on this client so far:
                      \* how many, and whether one of them failed

vars == << client, last, console, history >>

Call(op, arg, beacon, result, message) ==
    [op |-> op, arg |-> arg, beacon |-> beacon, result |-> result, message |-> message]

Init ==
    /\ client = None
    /\ last = Call("none", None, None, None, None)
    /\ console = << >>
    /\ history = [calls |-> 0, failed |-> FALSE]

\* DrandClient::new with a configuration of the set.  A behaviour follows one
\* client: it is constructed once, and a construction that fails may be retried.
New(configs) ==
    /\ ~client.some
    /\ \E chain_config \in configs, use_quicknet \in BOOLEAN :
        LET made == DrandClient_new(chain_config, use_quicknet, Quicknet.dst, Mainnet.dst)
        IN  /\ client' = IF made.ok THEN Some(made.v) ELSE client
            /\ last' = Call("new", [chain_config |-> chain_config, use_quicknet |-> use_quicknet],
                            None, Returned(IF made.ok THEN Ok("client") ELSE made), None)
            /\ console' = << >>
            /\ UNCHANGED history

\* The argument of a clock call: the timestamp, and the build profile the
\* call runs under (overflow checks on, as in a debug build, or off).
ClockArg(timestamp, overflow_checks) ==
    [timestamp |-> timestamp, overflow_checks |-> overflow_checks]

RoundAtTimestamp ==
    /\ client.some
    /\ \E timestamp \in U64, overflow_checks \in BOOLEAN :
        last' = Call("round_at_timestamp", ClockArg(timestamp, overflow_checks), None,
                     round_at_timestamp(client.v, timestamp, overflow_checks), None)
    /\ console' = << >>
    /\ UNCHANGED << client, history >>

NextRoundAfter ==
    /\ client.some
    /\ \E timestamp \in U64, overflow_checks \in BOOLEAN :
        last' = Call("next_round_after", ClockArg(timestamp, overflow_checks), None,
                     next_round_after(client.v, timestamp, overflow_checks), None)
    /\ console' = << >>
    /\ UNCHANGED << client, history >>

\* self_after_verify with the keys taken out of the client by the run.
self_after_verify_taking(self, beacon) ==
    [self EXCEPT !.g1_public_key = None, !.g2_public_key = None]

\* verify_beacon borrows the client (&self): the client it leaves behind.
self_after_verify(self, beacon) == self

\* What a run of verify_beacon leaves behind, whoever calls it.
Verified(op, arg, beacon, hands_beacon) ==
    /\ history.calls < MaxCalls
    /\ \E verdict \in {verify_beacon(client.v, beacon)} :
        /\ last' = Call(op, arg, Some(beacon),
                        Returned(IF hands_beacon /\ verdict.result.ok
                                 THEN Ok(beacon) ELSE verdict.result),
                        verdict.message)
        /\ console' = verdict.out
        /\ client' = Some(self_after_verify(client.v, beacon))
        /\ history' = [calls |-> history.calls + 1,
                       failed |-> history.failed \/ ~verdict.result.ok]

VerifyBeacon ==
    /\ client.some
    /\ \E beacon \in Beacons :
        Verified("verify_beacon", None, beacon, FALSE)

\* The request of get_latest and get_round: the transport fails, or a record
\* is decoded, verified and, when it verifies, handed back.
Fetched(op, arg) ==
    \/ /\ last' = Call(op, arg, None, Returned(Err("fetch failed")), None)
       /\ console' = << >>
       /\ UNCHANGED << client, history >>
    \/ \E beacon \in Beacons :
        Verified(op, arg, beacon, TRUE)

GetLatest ==
    /\ client.some
    /\ Fetched("get_latest", None)

GetRound ==
    /\ client.some
    /\ \E round \in Rounds : Fetched("get_round", round)

\* Verification: construction, verify_beacon and the two fetches, over every
\* key and scheme identifier.  The clock reads genesis_time and period alone
\* and changes nothing, and is followed on its own by SpecClock.
Next ==
    \/ New(ChainConfigs)
    \/ VerifyBeacon
    \/ GetLatest
    \/ GetRound

Spec == Init /\ [][Next]_vars

\* The clock: construction, round_at_timestamp and next_round_after, over
\* every genesis time, period and timestamp of the word.
NextClock ==
    \/ New(ClockConfigs)
    \/ RoundAtTimestamp
    \/ NextRoundAfter

SpecClock == Init /\ [][NextClock]_vars

\* ------------------------------------------------------------------ claims
\* The calls that ran verify_beacon, and how that run ended.
Verifying(call) == call.op \in {"verify_beacon", "get_latest", "get_round"} /\ call.beacon.some
Accepted(call) == Verifying(call) /\ call.result.v.ok
Rejected(call, why) == Verifying(call) /\ ~call.result.v.ok /\ call.result.v.err = why

\* floor((t - genesis_time) / period) + 1 as an integer, 1 up to genesis.
RoundOf(chain_config, t) ==
    IF t <= chain_config.genesis_time THEN 1
    ELSE ((t - chain_config.genesis_time) \div chain_config.period) + 1

\* C1: for every timestamp and every configuration with period > 0,
\* round_at_timestamp returns 1 up to genesis_time and otherwise exactly
\* floor((t - genesis_time) / period) + 1, without wrapping or aborting.
C1_RoundIsFloorPlusOne ==
    (last.op = "round_at_timestamp" /\ client.v.chain_config.period > 0)
        => /\ last.result.kind = "return"
           /\ last.result.v = RoundOf(client.v.chain_config, last.arg.timestamp)

\* C2: for every timestamp and every configuration with period > 0,
\* next_round_after(t) is round_at_timestamp(t) + 1, which is 2 up to
\* genesis_time, and the addition never overflows.
C2_NextIsRoundPlusOne ==
    (last.op = "next_round_after" /\ client.v.chain_config.period > 0)
        => LET r == round_at_timestamp(client.v, last.arg.timestamp,
                                       last.arg.overflow_checks)
           IN  /\ last.arg.timestamp <= client.v.chain_config.genesis_time
                    => last.result = Returned(2)
               /\ r.kind = "return"
                    => /\ last.result.kind = "return"
                       /\ last.result.v = r.v + 1

\* C3: a configuration with period = 0 is refused by DrandClient::new, so no
\* client that was constructed divides by zero in the clock.
C3_ZeroPeriodRefused ==
    /\ (last.op = "new" /\ last.arg.chain_config.period = 0) => ~last.result.v.ok
    /\ client.some => client.v.chain_config.period # 0
    /\ last.op \in {"round_at_timestamp", "next_round_after"}
        => last.result # Panicked("attempt to divide by zero")

\* A beacon carries a previous signature when the field is there and not empty.
Carries(beacon) == beacon.previous_signature.some /\ beacon.previous_signature.v # << >>

\* The message of a beacon, hashed with and without its previous signature.
\* The rounds of the model are below 256: the last of the eight bytes holds them.
RoundBytes(round) == << 0, 0, 0, 0, 0, 0, 0, round >>
MessageWithPrevious(beacon) ==
    Sha256(hex_decode(beacon.previous_signature.v).v \o RoundBytes(beacon.round))
MessageWithoutPrevious(beacon) == Sha256(RoundBytes(beacon.round))

UnchainedSchemes ==
    {"bls-unchained-g1-rfc9380", "pedersen-bls-unchained", "bls-unchained-on-g1"}

\* C4 as claimed: the message is SHA-256(previous signature || round) or
\* SHA-256(round); under the chained scheme the previous signature is always
\* part of it, under the three unchained schemes never, under any other
\* scheme exactly when the beacon carries a non-empty one.
C4_ChainedAlwaysIncludes ==
    (Verifying(last) /\ last.message.some) =>
        LET beacon == last.beacon.v
            scheme_id == client.v.chain_config.scheme_id
        IN  CASE scheme_id = "pedersen-bls-chained" ->
                    /\ beacon.previous_signature.some
                    /\ last.message.v = MessageWithPrevious(beacon)
              [] scheme_id \in UnchainedSchemes ->
                    last.message.v = MessageWithoutPrevious(beacon)
              [] OTHER ->
                    last.message.v = IF Carries(beacon) THEN MessageWithPrevious(beacon)
                                     ELSE MessageWithoutPrevious(beacon)

\* C4 as amended: under the chained scheme the previous signature is part of
\* the message whenever the beacon carries a non-empty one; a beacon that
\* carries none is hashed as SHA-256(round).  The unchained schemes never
\* include it, any other scheme includes it exactly when the beacon carries one.
C4_MessageRule ==
    (Verifying(last) /\ last.message.some) =>
        LET beacon == last.beacon.v
            scheme_id == client.v.chain_config.scheme_id
        IN  IF scheme_id \in UnchainedSchemes \/ ~Carries(beacon)
            THEN last.message.v = MessageWithoutPrevious(beacon)
            ELSE last.message.v = MessageWithPrevious(beacon)

\* A chained client verified a beacon with its previous signature in the message.
C4_Witness ==
    /\ Accepted(last)
    /\ client.v.chain_config.scheme_id = "pedersen-bls-chained"
    /\ Carries(last.beacon.v)
    /\ last.message.v = MessageWithPrevious(last.beacon.v)
    /\ last.message.v # MessageWithoutPrevious(last.beacon.v)

\* The second beacon is the first with one byte of its signature changed.
SignatureTampered(b1, b2) ==
    /\ b2 = [b1 EXCEPT !.signature = b2.signature]
    /\ LET d1 == hex_decode(b1.signature)
           d2 == hex_decode(b2.signature)
       IN  /\ d1.ok /\ d2.ok
           /\ Len(d1.v) = Len(d2.v)
           /\ Cardinality({i \in 1..Len(d1.v) : d1.v[i] # d2.v[i]}) = 1

\* The two failures a signature can meet in the scheme's branch.
SignatureInvalid(self) ==
    IF self.use_quicknet THEN "Quicknet signature verification failed"
    ELSE "Mainnet signature verification failed"
SignatureNotAPoint(self) ==
    IF self.use_quicknet THEN "Invalid G1 signature for quicknet"
    ELSE "Invalid G2 signature for mainnet"
SignatureGroup(self) == IF self.use_quicknet THEN "G1" ELSE "G2"

\* C5 as claimed: once a beacon is accepted, the beacon with one byte of its
\* signature changed is refused, and always as SignatureInvalid.
C5_TamperedIsSignatureInvalid ==
    [][ (Accepted(last) /\ Verifying(last')
           /\ SignatureTampered(last.beacon.v, last'.beacon.v))
          => Rejected(last', SignatureInvalid(client.v)) ]_vars

\* C5 as amended: once a beacon is accepted, the beacon with one byte of its
\* decoded signature changed is never accepted; it is refused as
\* SignatureInvalid when the changed bytes still decode to a point of the
\* signature group, and as an invalid signature encoding when they do not.
C5_TamperedIsRefused ==
    [][ (Accepted(last) /\ Verifying(last')
           /\ SignatureTampered(last.beacon.v, last'.beacon.v))
          => /\ ~Accepted(last')
             /\ Rejected(last',
                    IF from_compressed(SignatureGroup(client.v),
                                       hex_decode(last'.beacon.v.signature).v).some
                    THEN SignatureInvalid(client.v)
                    ELSE SignatureNotAPoint(client.v)) ]_vars

\* A client refused, as SignatureInvalid, a published beacon it accepts with
\* one byte of the signature changed.
C5_Witness ==
    /\ history.calls = 2
    /\ Rejected(last, SignatureInvalid(client.v))
    /\ \E b \in Published :
        /\ SignatureTampered(b, last.beacon.v)
        /\ verify_beacon(client.v, b).result.ok

\* The lowercase hex of SHA-256 of the decoded signature.
ExpectedRandomness(beacon) == hex_encode(Sha256(hex_decode(beacon.signature).v))

\* The run printed that the pairing check passed.
PairingPassed ==
    /\ Len(console) > 0
    /\ console[Len(console)][1] \in {"  Quicknet pairing verification PASSED",
                                      "  Fast pairing verification PASSED"}

\* C6: a beacon is accepted only if its randomness equals, character for
\* character, the lowercase hex of SHA-256 of the signature bytes; when the
\* pairing check passed and the randomness differs, in letter case alone too,
\* the failure is RandomnessMismatch.
C6_RandomnessExact ==
    /\ Accepted(last) => last.beacon.v.randomness = ExpectedRandomness(last.beacon.v)
    /\ (Verifying(last) /\ PairingPassed
          /\ last.beacon.v.randomness # ExpectedRandomness(last.beacon.v))
        => Rejected(last, "Randomness doesn't match signature hash")

\* A beacon whose randomness differs from the expected one in letter case
\* alone passed the pairing check and was refused.
C6_Witness ==
    /\ Verifying(last) /\ PairingPassed
    /\ last.beacon.v.randomness = ToUpper(ExpectedRandomness(last.beacon.v))
    /\ last.beacon.v.randomness # ExpectedRandomness(last.beacon.v)
    /\ Rejected(last, "Randomness doesn't match signature hash")

\* C7: DrandClient::new succeeds only for a key of the size of the group its
\* scheme requires (G2 for quicknet, G1 for mainnet) that parses as a point of
\* that group; a client holds exactly one key, in that group, and
\* verify_beacon never finds the key of its scheme missing.
C7_KeyMatchesScheme ==
    /\ (last.op = "new" /\ last.result.v.ok) =>
            LET pk_bytes == hex_decode(last.arg.chain_config.public_key)
            IN  /\ pk_bytes.ok
                /\ Len(pk_bytes.v) = IF last.arg.use_quicknet THEN G2_SIZE ELSE G1_SIZE
                /\ from_compressed(IF last.arg.use_quicknet THEN "G2" ELSE "G1",
                                   pk_bytes.v).some
    /\ client.some =>
            IF client.v.use_quicknet
            THEN /\ client.v.g2_public_key.some
                 /\ client.v.g2_public_key.v.grp = "G2"
                 /\ ~client.v.g1_public_key.some
            ELSE /\ client.v.g1_public_key.some
                 /\ client.v.g1_public_key.v.grp = "G1"
                 /\ ~client.v.g2_public_key.some
    /\ Verifying(last) =>
            /\ ~Rejected(last, "Missing G2 public key for quicknet")
            /\ ~Rejected(last, "Missing G1 public key for mainnet")

\* The key of the mainnet scheme was refused by a quicknet construction.
C7_Witness ==
    /\ last.op = "new"
    /\ last.arg.use_quicknet
    /\ last.arg.chain_config.public_key = MainnetPublicKey
    /\ ~last.result.v.ok

\* The client DrandClient::new gives for the configuration of a client.
FreshClient(self) ==
    DrandClient_new(self.chain_config, self.use_quicknet,
                    self.quicknet_dst, self.mainnet_dst).v
\* The verdict of a run of verify_beacon: accept, or the failure.
VerdictOf(call) == IF call.result.v.ok THEN "accept" ELSE call.result.v.err

C9_NothingPrinted == Verifying(last) => Len(console) = 0

\* C10: when get_round(r) returns Ok(beacon), the beacon's round is r.
C10_RoundIsTheOneAsked ==
    (last.op = "get_round" /\ last.result.v.ok) => last.result.v.v.round = last.arg

\* The failure of the signature stage for a signature of the wrong size.
SignatureWrongLength(self) ==
    IF self.use_quicknet THEN "Invalid G1 signature length"
    ELSE "Invalid G2 signature length"
SignatureSize(self) == IF self.use_quicknet THEN G1_SIZE ELSE G2_SIZE

\* The earliest stage a beacon fails, in the order signature decoding and
\* length, message with the previous signature, pairing, randomness, and the
\* failure of that stage; "none" when the order names no failure for it.
EarliestFailure(self, beacon) ==
    LET sig  == hex_decode(beacon.signature)
        prev == prev_sig_bytes(self.chain_config.scheme_id, beacon)
    IN  IF ~sig.ok THEN sig.err
        ELSE IF Len(sig.v) # SignatureSize(self) THEN SignatureWrongLength(self)
        ELSE IF ~prev.ok THEN prev.err
        ELSE IF ~from_compressed(SignatureGroup(self), sig.v).some THEN "none"
        ELSE LET message == Sha256(prev.v \o to_be_bytes(beacon.round))
                 equal   == IF self.use_quicknet
                            THEN pairing(from_compressed("G1", sig.v).v, generator("G2"))
                                   = pairing(hash_to_g1(message, self.quicknet_dst),
                                             self.g2_public_key.v)
                            ELSE pairing(generator("G1"), from_compressed("G2", sig.v).v)
                                   = pairing(self.g1_public_key.v,
                                             hash_to_g2(message, self.mainnet_dst))
             IN  IF ~equal THEN SignatureInvalid(self)
                 ELSE IF beacon.randomness # ExpectedRandomness(beacon)
                      THEN "Randomness doesn't match signature hash"
                      ELSE "none"

\* C11: verify_beacon stops at the first failing stage of the order signature
\* decoding and length check, message building with the decoding of the
\* previous signature, hash to curve, pairing check, randomness check: a
\* beacon that fails several stages is refused with the failure of the
\* earliest one (a signature of the wrong length with an undecodable included
\* previous signature gives the signature length failure; a failed pairing
\* with a wrong randomness gives SignatureInvalid).
C11_EarliestStageFails ==
    (Verifying(last) /\ EarliestFailure(client.v, last.beacon.v) # "none")
        => Rejected(last, EarliestFailure(client.v, last.beacon.v))

====
